---- MODULE Spec2Model ----
(***************************************************************************)
(* Model of the text-to-speech service's in-memory audio cache             *)
(* (AudioCache: LRU list + map + expiry sweeper, guarded by one mutex),    *)
(* of the key derivation hashKey and of getOrGenerateAudio.                *)
(***************************************************************************)
EXTENDS Integers, Sequences, FiniteSets, TLC

(***************************************************************************)
(* Bounds of the model.                                                    *)
(***************************************************************************)
MaxCap == 2        \* largest maxSize handed to NewAudioCache
TTL == 1           \* the expiration handed to NewAudioCache, in time units
MaxTime == 3       \* the clock stops advancing here

Procs == {"g1", "g2"}     \* request goroutines
Sweeper == "sweeper"      \* the goroutine started by NewAudioCache
Unlocked == "unlocked"    \* the zero value of the mutex

(***************************************************************************)
(* Strings are sequences of characters; byte slices are sequences of       *)
(* byte values.  Nil is the nil slice.                                     *)
(***************************************************************************)
Nil == <<-1>>
Ord == [ch \in {"a", "b", ":"} |-> CASE ch = "a" -> 97 [] ch = "b" -> 98 [] ch = ":" -> 58]

Texts == { <<"a">>, <<"a", ":">> }
Langs == { <<"b">>, <<":", "b">> }

(***************************************************************************)
(* hash/fnv New32a on 32-bit words kept as two 16-bit limbs <<hi, lo>>.    *)
(***************************************************************************)
RECURSIVE Xor(_, _, _)
Xor(x, y, bits) ==
  IF bits = 0 THEN 0
  ELSE (IF (x % 2) = (y % 2) THEN 0 ELSE 1) + 2 * Xor(x \div 2, y \div 2, bits - 1)

offset32 == <<33052, 40389>>      \* 0x811c9dc5
prime32Hi == 256                  \* 0x01000193 = 256 * 2^16 + 403
prime32Lo == 403

MulPrime32(h) ==
  LET lolo == h[2] * prime32Lo
      mid  == h[1] * prime32Lo + h[2] * prime32Hi + (lolo \div 65536)
  IN  << mid % 65536, lolo % 65536 >>

RECURSIVE Sum32a(_, _)
Sum32a(h, bytes) ==
  IF bytes = << >> THEN h
  ELSE Sum32a(MulPrime32(<< h[1], (h[2] - (h[2] % 256)) + Xor(h[2] % 256, Head(bytes), 8) >>),
              Tail(bytes))

HexDigit == <<"0","1","2","3","4","5","6","7","8","9","a","b","c","d","e","f">>

RECURSIVE FormatHex(_)
FormatHex(n) ==
  IF n < 16 THEN << HexDigit[n + 1] >>
  ELSE FormatHex(n \div 16) \o << HexDigit[(n % 16) + 1] >>

RECURSIVE Pad4(_)
Pad4(s) == IF Len(s) >= 4 THEN s ELSE Pad4(<<"0">> \o s)

\* fmt.Sprintf("%x", h.Sum32())
SprintfX(h) == IF h[1] = 0 THEN FormatHex(h[2]) ELSE FormatHex(h[1]) \o Pad4(FormatHex(h[2]))

\* fmt.Sprintf("%s:%s", text, lang)
SprintfKey(text, lang) == text \o <<":">> \o lang

ToBytes(s) == [i \in 1..Len(s) |-> Ord[s[i]]]

hashKey(text, lang) == SprintfX(Sum32a(offset32, ToBytes(SprintfKey(text, lang))))

HashOf == [t \in Texts, l \in Langs |-> hashKey(t, l)]
Keys == { HashOf[t, l] : t \in Texts, l \in Langs }


(***************************************************************************)
(* The collaborators: gtts-cli, ffmpeg and gzip.                           *)
(***************************************************************************)
GttsOutputs == { <<1>>, <<2>> }            \* what gtts-cli may write to stdout
FfmpegMp3(in) == <<255>> \o in             \* the mp3 stream ffmpeg writes for in
Gzip(in) == <<31, 139>> \o in              \* gzip member: magic header, then body
SetPayloads == { << >>, <<1>> }            \* payloads handed to set directly

(***************************************************************************)
(* container/list: a list is a sequence of elements, front first; an       *)
(* element is [id, Value], id being its address.                           *)
(***************************************************************************)
Ids(l) == { l[i].id : i \in 1..Len(l) }
InList(l, id) == id \in Ids(l)
ElemAt(l, id) == l[CHOOSE i \in 1..Len(l) : l[i].id = id]
ListRemove(l, id) == SelectSeq(l, LAMBDA e : e.id # id)
MoveToFront(l, id) == IF InList(l, id) THEN << ElemAt(l, id) >> \o ListRemove(l, id) ELSE l
PushFront(l, e) == << e >> \o l
Back(l) == l[Len(l)]
SetValue(l, id, v) == [i \in 1..Len(l) |-> IF l[i].id = id THEN [l[i] EXCEPT !.Value = v] ELSE l[i]]

cacheItem(key, data, timestamp) == [key |-> key, entry |-> [data |-> data, timestamp |-> timestamp]]

\* a store is the pair of fields [cache, lruList] of an AudioCache
Restrict(f, S) == [k \in S |-> f[k]]
\* PushFront allocates a new Element: its address is one that no element of
\* the list and no map entry holds.  The program only compares addresses, so
\* which free address comes back is immaterial; the model hands out the slot
\* numbered after the key when it is free and the lowest free slot otherwise,
\* which keeps stores that differ only in their addresses from being told apart.
Live(st) == Ids(st.lruList) \cup { st.cache[k] : k \in DOMAIN st.cache }
KeySlot == CHOOSE s \in [Keys -> 1..Cardinality(Keys)] : \A j \in Keys : \A k \in Keys \ {j} : s[j] # s[k]
NewId(st, key) ==
  IF KeySlot[key] \notin Live(st)
  THEN KeySlot[key]
  ELSE CHOOSE n \in 1..(Cardinality(Live(st)) + 1) :
         /\ n \notin Live(st)
         /\ \A m \in 1..(n - 1) : m \in Live(st)

\* remove that forgets the map entry
removeListOnly(st, key) ==
  IF key \in DOMAIN st.cache
  THEN [st EXCEPT !.lruList = ListRemove(st.lruList, st.cache[key])]
  ELSE st

\* remove that forgets the list element
removeMapOnly(st, key) ==
  IF key \in DOMAIN st.cache
  THEN [st EXCEPT !.cache = Restrict(st.cache, DOMAIN st.cache \ {key})]
  ELSE st

remove(st, key) ==
  IF key \in DOMAIN st.cache
  THEN [cache   |-> Restrict(st.cache, DOMAIN st.cache \ {key}),
        lruList |-> ListRemove(st.lruList, st.cache[key])]
  ELSE st

\* get that moves the element to the back of the list
getMoveToBack(st, key) ==
  IF key \in DOMAIN st.cache
  THEN [st     |-> [st EXCEPT !.lruList = ListRemove(st.lruList, st.cache[key])
                                            \o << ElemAt(st.lruList, st.cache[key]) >>],
        data   |-> ElemAt(st.lruList, st.cache[key]).Value.entry.data,
        exists |-> TRUE]
  ELSE [st |-> st, data |-> Nil, exists |-> FALSE]

\* get that reads the payload of the front element
getFrontData(st, key) ==
  IF key \in DOMAIN st.cache
  THEN [st     |-> [st EXCEPT !.lruList = MoveToFront(st.lruList, st.cache[key])],
        data   |-> st.lruList[1].Value.entry.data,
        exists |-> TRUE]
  ELSE [st |-> st, data |-> Nil, exists |-> FALSE]

\* get that does not move the element to the front
getNoMove(st, key) ==
  IF key \in DOMAIN st.cache
  THEN [st     |-> st,
        data   |-> ElemAt(st.lruList, st.cache[key]).Value.entry.data,
        exists |-> TRUE]
  ELSE [st |-> st, data |-> Nil, exists |-> FALSE]

\* get: [st, data, exists]
get(st, key) ==
  IF key \in DOMAIN st.cache
  THEN [st     |-> [st EXCEPT !.lruList = MoveToFront(st.lruList, st.cache[key])],
        data   |-> ElemAt(st.lruList, st.cache[key]).Value.entry.data,
        exists |-> TRUE]
  ELSE [st |-> st, data |-> Nil, exists |-> FALSE]

\* set that makes room before it looks the key up
setEvictFirst(st, key, data, maxSz, t) ==
  LET ev == IF Len(st.lruList) >= maxSz /\ Len(st.lruList) > 0
            THEN remove(st, Back(st.lruList).Value.key)
            ELSE st
  IN  IF key \in DOMAIN ev.cache
      THEN [ev EXCEPT !.lruList = SetValue(MoveToFront(ev.lruList, ev.cache[key]),
                                           ev.cache[key], cacheItem(key, data, t))]
      ELSE LET id == NewId(ev, key)
           IN  [cache   |-> [k \in DOMAIN ev.cache \cup {key} |-> IF k = key THEN id ELSE ev.cache[k]],
                lruList |-> PushFront(ev.lruList, [id |-> id, Value |-> cacheItem(key, data, t)])]

\* set that only bumps the recency of a resident key
setKeepOldValue(st, key, data, maxSz, t) ==
  IF key \in DOMAIN st.cache
  THEN [st EXCEPT !.lruList = MoveToFront(st.lruList, st.cache[key])]
  ELSE LET ev == IF Len(st.lruList) >= maxSz /\ Len(st.lruList) > 0
                 THEN remove(st, Back(st.lruList).Value.key)
                 ELSE st
           id == NewId(ev, key)
       IN  [cache   |-> [k \in DOMAIN ev.cache \cup {key} |-> IF k = key THEN id ELSE ev.cache[k]],
            lruList |-> PushFront(ev.lruList, [id |-> id, Value |-> cacheItem(key, data, t)])]

set(st, key, data, maxSz, t) ==
  IF key \in DOMAIN st.cache
  THEN [st EXCEPT !.lruList = SetValue(MoveToFront(st.lruList, st.cache[key]),
                                       st.cache[key], cacheItem(key, data, t))]
  ELSE LET ev == IF Len(st.lruList) >= maxSz /\ Len(st.lruList) > 0
                 THEN remove(st, Back(st.lruList).Value.key)
                 ELSE st
           id == NewId(ev, key)
       IN  [cache   |-> [k \in DOMAIN ev.cache \cup {key} |-> IF k = key THEN id ELSE ev.cache[k]],
            lruList |-> PushFront(ev.lruList, [id |-> id, Value |-> cacheItem(key, data, t)])]

\* a pass that leaves the loop after its first removal
RECURSIVE evictExpiredFirstOnly(_, _, _, _)
evictExpiredFirstOnly(st, todo, t, exp) ==
  IF todo = {} THEN st
  ELSE LET key == CHOOSE k \in todo : TRUE
       IN  IF key \in DOMAIN st.cache
              /\ t - ElemAt(st.lruList, st.cache[key]).Value.entry.timestamp > exp
           THEN remove(st, key)
           ELSE evictExpiredFirstOnly(st, todo \ {key}, t, exp)

\* a pass that also removes the entries whose age equals the expiration
RECURSIVE evictExpiredGe(_, _, _, _)
evictExpiredGe(st, todo, t, exp) ==
  IF todo = {} THEN st
  ELSE LET key == CHOOSE k \in todo : TRUE
           nxt == IF key \in DOMAIN st.cache
                     /\ t - ElemAt(st.lruList, st.cache[key]).Value.entry.timestamp >= exp
                  THEN remove(st, key)
                  ELSE st
       IN  evictExpiredGe(nxt, todo \ {key}, t, exp)

\* one pass of the loop body of evictExpiredEntries over the keys still to visit
RECURSIVE evictExpired(_, _, _, _)
evictExpired(st, todo, t, exp) ==
  IF todo = {} THEN st
  ELSE LET key == CHOOSE k \in todo : TRUE
           nxt == IF key \in DOMAIN st.cache
                     /\ t - ElemAt(st.lruList, st.cache[key]).Value.entry.timestamp > exp
                  THEN remove(st, key)
                  ELSE st
       IN  evictExpired(nxt, todo \ {key}, t, exp)

(***************************************************************************)
(* State.                                                                  *)
(***************************************************************************)
VARIABLES
  cache,       \* AudioCache.cache: key -> address of its list element
  lruList,     \* AudioCache.lruList, most recently used first
  maxSize,     \* AudioCache.maxSize
  expiration,  \* AudioCache.expiration
  mu,          \* AudioCache.mu: Unlocked, or the goroutine holding it
  now,         \* the wall clock read by time.Now / time.Since
  sweeper,     \* the evictExpiredEntries goroutine: [pc, wakeAt]
  gor,         \* the request goroutines: Procs -> frame of the running call
  useOrder,    \* history: resident keys by their latest get-hit or set, latest first
  lastSet,     \* history: key -> payload of its latest set not followed by a removal
  audioCache,  \* file-backed variant: the sync.Map audioCache, key -> filename
  gttsWriters, \* file-backed variant: pairs <<filename, goroutine>>, its gtts-cli writing the file
  written      \* file-backed variant: filenames a gtts-cli run has written completely

vars == << cache, lruList, maxSize, expiration, mu, now, sweeper, gor, useOrder,
           lastSet, audioCache, gttsWriters, written >>
fileVars == << audioCache, gttsWriters, written >>

store == [cache |-> cache, lruList |-> lruList]

NoStr == << >>
idleFrame == [pc |-> "idle", fn |-> "none", text |-> NoStr, lang |-> NoStr, cacheKey |-> NoStr,
              audioData |-> Nil, data |-> Nil, exists |-> FALSE, err |-> "nil",
              synthCalls |-> 0, setCalls |-> 0, peers |-> {}, evicted |-> {}]

\* NewAudioCache(maxSize, expiration), the sweeper started and asleep
Init ==
  /\ cache = << >>
  /\ lruList = << >>
  /\ maxSize \in 0..MaxCap
  /\ expiration = TTL
  /\ mu = Unlocked
  /\ now = 0
  /\ sweeper = [pc |-> "sleep", wakeAt |-> TTL]
  /\ gor = [p \in Procs |-> idleFrame]
  /\ useOrder = << >>
  /\ lastSet = << >>
  /\ audioCache = << >>
  /\ gttsWriters = {}
  /\ written = {}

Touch(order, key) == << key >> \o SelectSeq(order, LAMBDA k : k # key)
Resident(order, keys) == SelectSeq(order, LAMBDA k : k \in keys)
CanCall(p) == gor[p].pc \in {"idle", "done"}
\* goroutines past a miss on key and not yet returned
InFlightMiss(key) == { q \in Procs : gor[q].fn = "fetch" /\ gor[q].cacheKey = key
                                       /\ gor[q].pc \in {"gtts", "ffmpeg", "set", "set_cs"} }

(***************************************************************************)
(* The clock.                                                              *)
(***************************************************************************)
Tick ==
  /\ now < MaxTime
  /\ now' = now + 1
  /\ UNCHANGED << cache, lruList, maxSize, expiration, mu, sweeper, gor, useOrder, lastSet, fileVars >>

(***************************************************************************)
(* evictExpiredEntries: sleep, lock, sweep, unlock.                        *)
(***************************************************************************)
SweeperLock ==
  /\ sweeper.pc = "sleep"
  /\ now >= sweeper.wakeAt
  /\ mu = Unlocked
  /\ mu' = Sweeper
  /\ sweeper' = [sweeper EXCEPT !.pc = "sweep"]
  /\ UNCHANGED << cache, lruList, maxSize, expiration, now, gor, useOrder, lastSet, fileVars >>

\* a sweeper that returns when it finds the store empty
SweeperPassExitWhenEmpty ==
  /\ sweeper.pc = "sweep"
  /\ mu = Sweeper
  /\ LET st == evictExpired(store, DOMAIN cache, now, expiration)
     IN  /\ cache' = st.cache
         /\ lruList' = st.lruList
  /\ mu' = Unlocked
  /\ sweeper' = [pc |-> IF DOMAIN cache = {} THEN "exit" ELSE "sleep", wakeAt |-> now + expiration]
  /\ useOrder' = Resident(useOrder, DOMAIN cache')
  /\ lastSet' = Restrict(lastSet, DOMAIN lastSet \ (DOMAIN cache \ DOMAIN cache'))
  /\ UNCHANGED << maxSize, expiration, now, gor, fileVars >>

SweeperPass ==
  /\ sweeper.pc = "sweep"
  /\ mu = Sweeper
  /\ LET st == evictExpired(store, DOMAIN cache, now, expiration)
     IN  /\ cache' = st.cache
         /\ lruList' = st.lruList
  /\ mu' = Unlocked
  /\ sweeper' = [pc |-> "sleep", wakeAt |-> now + expiration]
  /\ useOrder' = Resident(useOrder, DOMAIN cache')
  /\ lastSet' = Restrict(lastSet, DOMAIN lastSet \ (DOMAIN cache \ DOMAIN cache'))
  /\ UNCHANGED << maxSize, expiration, now, gor, fileVars >>

(***************************************************************************)
(* Calls made by the request goroutines.                                   *)
(***************************************************************************)
\* handleSpeak, one goroutine per request, calls getOrGenerateAudio(text, lang, cache);
\* cacheKey := hashKey(text, lang)
CallFetch(p, t, l) ==
  /\ gor[p].pc = "idle"
  /\ gor' = [gor EXCEPT ![p] = [idleFrame EXCEPT !.pc = "get", !.fn = "fetch", !.text = t, !.lang = l,
                                        !.cacheKey = hashKey(t, l)]]
  /\ UNCHANGED << cache, lruList, maxSize, expiration, mu, now, sweeper, useOrder, lastSet, fileVars >>

\* a direct cache.get(key)
CallGet(p, key) ==
  /\ CanCall(p)
  /\ gor' = [gor EXCEPT ![p] = [idleFrame EXCEPT !.pc = "get", !.fn = "get", !.cacheKey = key]]
  /\ UNCHANGED << cache, lruList, maxSize, expiration, mu, now, sweeper, useOrder, lastSet, fileVars >>

\* a direct cache.set(key, data)
CallSet(p, key, d) ==
  /\ CanCall(p)
  /\ gor' = [gor EXCEPT ![p] = [idleFrame EXCEPT !.pc = "set", !.fn = "set", !.cacheKey = key, !.audioData = d]]
  /\ UNCHANGED << cache, lruList, maxSize, expiration, mu, now, sweeper, useOrder, lastSet, fileVars >>

\* c.mu.Lock() at the head of get
GetLock(p) ==
  /\ gor[p].pc = "get"
  /\ mu = Unlocked
  /\ mu' = p
  /\ gor' = [gor EXCEPT ![p].pc = "get_cs"]
  /\ UNCHANGED << cache, lruList, maxSize, expiration, now, sweeper, useOrder, lastSet, fileVars >>

\* getOrGenerateAudio that generates whatever cache.get returned
AfterGetAlwaysGenerate(f, r) ==
  IF f.fn = "fetch"
  THEN [f EXCEPT !.pc = "gtts", !.exists = r.exists, !.peers = InFlightMiss(f.cacheKey)]
  ELSE [f EXCEPT !.pc = "done", !.data = r.data, !.exists = r.exists]

\* where getOrGenerateAudio goes after cache.get returned r
AfterGet(f, r) ==
  IF f.fn = "fetch" /\ ~r.exists
  THEN [f EXCEPT !.pc = "gtts", !.peers = InFlightMiss(f.cacheKey)]
  ELSE [f EXCEPT !.pc = "done", !.data = r.data, !.exists = r.exists]

\* get without its deferred Unlock
UnlockNever(p, r) == p

\* get that keeps the mutex when it misses
UnlockOnlyOnHit(p, r) == IF r.exists THEN Unlocked ELSE p

\* defer c.mu.Unlock() of get, run when get returns r
UnlockAfterGet(p, r) == Unlocked

\* the body of get, and the deferred Unlock
GetBody(p) ==
  /\ gor[p].pc = "get_cs"
  /\ mu = p
  /\ LET r == get(store, gor[p].cacheKey)
     IN  /\ cache' = r.st.cache
         /\ lruList' = r.st.lruList
         /\ gor' = [gor EXCEPT ![p] = AfterGet(gor[p], r)]
         /\ useOrder' = Resident(IF r.exists THEN Touch(useOrder, gor[p].cacheKey) ELSE useOrder,
                                  DOMAIN cache')
  /\ mu' = UnlockAfterGet(p, get(store, gor[p].cacheKey))
  /\ UNCHANGED << maxSize, expiration, now, sweeper, lastSet, fileVars >>

\* generateCompressedAudioData, step 1: gtts-cli runs and exits
GttsFrame(f, ok, out) ==
  IF ok THEN [f EXCEPT !.pc = "ffmpeg", !.audioData = out, !.synthCalls = @ + 1]
  ELSE [f EXCEPT !.pc = "done", !.data = Nil, !.err = "gtts", !.synthCalls = @ + 1]

Gtts(p, ok, out) ==
  /\ gor[p].pc = "gtts"
  /\ gor' = [gor EXCEPT ![p] = GttsFrame(gor[p], ok, out)]
  /\ UNCHANGED << cache, lruList, maxSize, expiration, mu, now, sweeper, useOrder, lastSet, fileVars >>

\* generateCompressedAudioData, steps 2 and 3: ffmpeg runs and exits, gzip
\* generateCompressedAudioData that drops the error of ffmpeg
FfmpegFrameIgnoreErr(f, ok) ==
  IF ok THEN [f EXCEPT !.pc = "set", !.audioData = Gzip(FfmpegMp3(f.audioData))]
  ELSE [f EXCEPT !.pc = "set", !.audioData = Nil, !.err = "ffmpeg"]

FfmpegFrame(f, ok) ==
  IF ok THEN [f EXCEPT !.pc = "set", !.audioData = Gzip(FfmpegMp3(f.audioData))]
  ELSE [f EXCEPT !.pc = "done", !.audioData = Nil, !.data = Nil, !.err = "ffmpeg"]

Ffmpeg(p, ok) ==
  /\ gor[p].pc = "ffmpeg"
  /\ gor' = [gor EXCEPT ![p] = FfmpegFrame(gor[p], ok)]
  /\ UNCHANGED << cache, lruList, maxSize, expiration, mu, now, sweeper, useOrder, lastSet, fileVars >>

\* c.mu.Lock() at the head of set
SetLock(p) ==
  /\ gor[p].pc = "set"
  /\ mu = Unlocked
  /\ mu' = p
  /\ gor' = [gor EXCEPT ![p].pc = "set_cs"]
  /\ UNCHANGED << cache, lruList, maxSize, expiration, now, sweeper, useOrder, lastSet, fileVars >>

\* what the caller of cache.set returns
AfterSet(f) ==
  IF f.fn = "fetch"
  THEN [f EXCEPT !.pc = "done", !.data = f.audioData, !.setCalls = @ + 1]
  ELSE [f EXCEPT !.pc = "done", !.setCalls = @ + 1]

\* the body of set, and the deferred Unlock
SetBody(p) ==
  /\ gor[p].pc = "set_cs"
  /\ mu = p
  /\ LET st == set(store, gor[p].cacheKey, gor[p].audioData, maxSize, now)
     IN  /\ cache' = st.cache
         /\ lruList' = st.lruList
  \* a direct call keeps exists, the result of the lookup at the head of set
  /\ gor' = [gor EXCEPT ![p] = [AfterSet(gor[p]) EXCEPT
                                  !.evicted = DOMAIN cache \ DOMAIN cache',
                                  !.exists = IF gor[p].fn = "set"
                                             THEN gor[p].cacheKey \in DOMAIN cache ELSE @]]
  /\ useOrder' = Resident(Touch(useOrder, gor[p].cacheKey), DOMAIN cache')
  /\ lastSet' = [k \in (DOMAIN lastSet \ (DOMAIN cache \ DOMAIN cache')) \cup {gor[p].cacheKey} |->
                   IF k = gor[p].cacheKey THEN gor[p].audioData ELSE lastSet[k]]
  /\ mu' = Unlocked
  /\ UNCHANGED << maxSize, expiration, now, sweeper, fileVars >>

(***************************************************************************)
(* Spec: one goroutine drives the AudioCache through get and set while the *)
(* sweeper and the clock run.                                              *)
(***************************************************************************)
Driver == "g1"

Next ==
  \/ Tick
  \/ SweeperLock
  \/ SweeperPass
  \/ \E k \in Keys : CallGet(Driver, k)
  \/ \E k \in Keys, d \in SetPayloads : CallSet(Driver, k, d)
  \/ GetLock(Driver)
  \/ GetBody(Driver)
  \/ SetLock(Driver)
  \/ SetBody(Driver)

Spec == Init /\ [][Next]_vars

(***************************************************************************)
(* SpecOnTime: Spec with a sweeper that is scheduled at each of its        *)
(* wake-ups: the clock does not move while a pass is due or under way.     *)
(***************************************************************************)
SweeperOnTime == sweeper.pc = "sleep" /\ now < sweeper.wakeAt
TickOnTime == SweeperOnTime /\ Tick

NextOnTime ==
  \/ TickOnTime
  \/ SweeperLock
  \/ SweeperPass
  \/ \E k \in Keys : CallGet(Driver, k)
  \/ \E k \in Keys, d \in SetPayloads : CallSet(Driver, k, d)
  \/ GetLock(Driver)
  \/ GetBody(Driver)
  \/ SetLock(Driver)
  \/ SetBody(Driver)

SpecOnTime == Init /\ [][NextOnTime]_vars

(***************************************************************************)
(* SpecSweepFair: the sweeper next to one goroutine that keeps calling set *)
(* and get on two keys, under fair scheduling: the clock advances, a       *)
(* goroutine that can run does run, and a sweeper waiting in Lock gets the *)
(* mutex.                                                                  *)
(***************************************************************************)
SweepKeys == { HashOf[<<"a">>, <<"b">>], HashOf[<<"a", ":">>, <<"b">>] }

NextSweep ==
  \/ Tick
  \/ SweeperLock
  \/ SweeperPass
  \/ \E k \in SweepKeys : CallGet(Driver, k)
  \/ \E k \in SweepKeys : CallSet(Driver, k, <<1>>)
  \/ GetLock(Driver)
  \/ GetBody(Driver)
  \/ SetLock(Driver)
  \/ SetBody(Driver)

FairSweep ==
  /\ WF_vars(Tick)
  /\ SF_vars(SweeperLock)
  /\ WF_vars(SweeperPass)
  /\ WF_vars(GetBody(Driver))
  /\ WF_vars(SetBody(Driver))

SpecSweepFair == Init /\ [][NextSweep]_vars /\ FairSweep

(***************************************************************************)
(* SpecFetch: the request goroutines run getOrGenerateAudio concurrently   *)
(* while the sweeper and the clock run.                                    *)
(***************************************************************************)
NextFetch ==
  \/ Tick
  \/ SweeperLock
  \/ SweeperPass
  \/ \E p \in Procs, t \in Texts, l \in Langs : CallFetch(p, t, l)
  \/ \E p \in Procs : GetLock(p)
  \/ \E p \in Procs : GetBody(p)
  \/ \E p \in Procs, ok \in BOOLEAN, out \in GttsOutputs : Gtts(p, ok, out)
  \/ \E p \in Procs, ok \in BOOLEAN : Ffmpeg(p, ok)
  \/ \E p \in Procs : SetLock(p)
  \/ \E p \in Procs : SetBody(p)

SpecFetch == Init /\ [][NextFetch]_vars

(***************************************************************************)
(* SpecFetchFair: two requests for the text "a", in either language, under *)
(* the scheduling the Go runtime gives.  A goroutine that can run does run *)
(* (weak fairness of the bodies), and a goroutine waiting in Lock gets the *)
(* mutex (sync.Mutex hands the lock to a starving waiter: strong fairness  *)
(* of the Lock steps).  Nothing makes gtts-cli or ffmpeg exit: the steps   *)
(* Gtts and Ffmpeg carry no fairness.                                      *)
(***************************************************************************)
NextFetchA ==
  \/ Tick
  \/ SweeperLock
  \/ SweeperPass
  \/ \E p \in Procs, l \in Langs : CallFetch(p, <<"a">>, l)
  \/ \E p \in Procs : GetLock(p)
  \/ \E p \in Procs : GetBody(p)
  \/ \E p \in Procs, ok \in BOOLEAN : Gtts(p, ok, <<1>>)
  \/ \E p \in Procs, ok \in BOOLEAN : Ffmpeg(p, ok)
  \/ \E p \in Procs : SetLock(p)
  \/ \E p \in Procs : SetBody(p)

FairFetch ==
  /\ \A p \in Procs : SF_vars(GetLock(p)) /\ SF_vars(SetLock(p))
  /\ \A p \in Procs : WF_vars(GetBody(p)) /\ WF_vars(SetBody(p))
  /\ SF_vars(SweeperLock)
  /\ WF_vars(SweeperPass)
  /\ WF_vars(Tick)

SpecFetchFair == Init /\ [][NextFetchA]_vars /\ FairFetch

(***************************************************************************)
(* The file-backed variant: handleSpeak and generateAudioFile over the     *)
(* sync.Map audioCache and the files output_<key>.mp3.                     *)
(***************************************************************************)
\* fmt.Sprintf("output_%s.mp3", cacheKey)
SprintfFilename(key) == <<"o", "u", "t", "p", "u", "t", "_">> \o key \o <<".", "m", "p", "3">>

cacheVars == << cache, lruList, maxSize, expiration, mu, now, sweeper, useOrder, lastSet >>

\* handleSpeak decodes the request and calls generateAudioFile(text, lang)
CallSpeakFile(p, t, l) ==
  /\ gor[p].pc = "idle"
  /\ gor' = [gor EXCEPT ![p] = [idleFrame EXCEPT !.pc = "load", !.fn = "speak", !.text = t,
                                                 !.lang = l, !.cacheKey = hashKey(t, l)]]
  /\ UNCHANGED << cacheVars, fileVars >>

\* audioCache.Load(cacheKey): on a hit generateAudioFile returns the filename
Load(p) ==
  /\ gor[p].pc = "load"
  /\ gor' = [gor EXCEPT ![p].pc = IF gor[p].cacheKey \in DOMAIN audioCache THEN "etag" ELSE "exec",
                        ![p].exists = gor[p].cacheKey \in DOMAIN audioCache]
  /\ UNCHANGED << cacheVars, fileVars >>

\* cmd.CombinedOutput() starts gtts-cli --output filename
GttsStart(p) ==
  /\ gor[p].pc = "exec"
  /\ gor' = [gor EXCEPT ![p].pc = "writing", ![p].synthCalls = @ + 1]
  /\ gttsWriters' = gttsWriters \cup { << SprintfFilename(gor[p].cacheKey), p >> }
  /\ UNCHANGED << cacheVars, audioCache, written >>

\* gtts-cli exits: with an error generateAudioFile returns it, else it goes on
GttsExit(p, ok) ==
  /\ gor[p].pc = "writing"
  /\ gttsWriters' = gttsWriters \ { << SprintfFilename(gor[p].cacheKey), p >> }
  /\ written' = IF ok THEN written \cup { SprintfFilename(gor[p].cacheKey) } ELSE written
  /\ gor' = [gor EXCEPT ![p].pc = IF ok THEN "store" ELSE "done",
                        ![p].err = IF ok THEN "nil" ELSE "gtts"]
  /\ UNCHANGED << cacheVars, audioCache >>

\* audioCache.Store(cacheKey, filename)
Store(p) ==
  /\ gor[p].pc = "store"
  /\ audioCache' = [k \in DOMAIN audioCache \cup {gor[p].cacheKey} |->
                      IF k = gor[p].cacheKey THEN SprintfFilename(gor[p].cacheKey) ELSE audioCache[k]]
  /\ gor' = [gor EXCEPT ![p].pc = "etag"]
  /\ UNCHANGED << cacheVars, gttsWriters, written >>

\* If-None-Match equal to the ETag: 304; else http.ServeFile starts reading
Etag(p, match) ==
  /\ gor[p].pc = "etag"
  /\ gor' = [gor EXCEPT ![p].pc = IF match THEN "done" ELSE "serving"]
  /\ UNCHANGED << cacheVars, fileVars >>

\* http.ServeFile has sent the file
ServeFileDone(p) ==
  /\ gor[p].pc = "serving"
  /\ gor' = [gor EXCEPT ![p].pc = "done"]
  /\ UNCHANGED << cacheVars, fileVars >>

NextFile ==
  \/ \E p \in Procs, t \in Texts, l \in Langs : CallSpeakFile(p, t, l)
  \/ \E p \in Procs : Load(p)
  \/ \E p \in Procs : GttsStart(p)
  \/ \E p \in Procs, ok \in BOOLEAN : GttsExit(p, ok)
  \/ \E p \in Procs : Store(p)
  \/ \E p \in Procs, match \in BOOLEAN : Etag(p, match)
  \/ \E p \in Procs : ServeFileDone(p)

SpecFile == Init /\ [][NextFile]_vars

(***************************************************************************)
(* Properties.                                                             *)
(***************************************************************************)
ItemOf(c, l, key) == ElemAt(l, c[key]).Value
EntryOf(c, l, key) == ItemOf(c, l, key).entry
ListKeys(l) == { l[i].Value.key : i \in 1..Len(l) }
\* goroutine p takes the step from position a to position b
Steps(p, a, b) == gor[p].pc = a /\ gor'[p].pc = b

\* C1: whatever capacity maxSize >= 0 the cache was built with, the number
\* of resident entries (size of the map, length of lruList) never exceeds it.
C1_CapacityBound ==
  /\ Cardinality(DOMAIN cache) <= maxSize
  /\ Len(lruList) <= maxSize

\* C2: a set of a key that is not resident, into a store holding exactly
\* maxSize >= 1 entries, evicts exactly the key whose latest get-hit or set is
\* the oldest among the resident keys; every other resident key stays with
\* its payload, and the new key becomes resident.
C2_LRUEviction ==
  [][\A p \in Procs :
       ( /\ Steps(p, "set_cs", "done")
         /\ gor[p].cacheKey \notin DOMAIN cache
         /\ maxSize >= 1
         /\ Cardinality(DOMAIN cache) = maxSize )
       => LET victim == useOrder[Len(useOrder)]
          IN  /\ victim \in DOMAIN cache
              /\ DOMAIN cache' = (DOMAIN cache \ {victim}) \cup {gor[p].cacheKey}
              /\ \A k \in DOMAIN cache \ {victim} :
                    EntryOf(cache', lruList', k) = EntryOf(cache, lruList, k)
              /\ EntryOf(cache', lruList', gor[p].cacheKey).data = gor[p].audioData
    ]_vars

\* a set on a full store of capacity 2 has evicted one key and kept the other
C2_Witness ==
  /\ maxSize = 2
  /\ gor[Driver].pc = "done" /\ gor[Driver].fn = "set"
  /\ Cardinality(gor[Driver].evicted) = 1
  /\ Cardinality(DOMAIN cache) = 2
  /\ lruList[1].Value.key = gor[Driver].cacheKey
  \* the survivor is older than the entry just set
  /\ lruList[2].Value.entry.timestamp < lruList[1].Value.entry.timestamp

\* C3: get never reports a hit for an entry whose age, now minus the
\* timestamp of its last set, is strictly greater than expiration.
C3_NoExpiredHit ==
  [][\A p \in Procs :
       ( /\ Steps(p, "get_cs", "done")
         /\ gor'[p].exists )
       => now - EntryOf(cache, lruList, gor[p].cacheKey).timestamp <= expiration
    ]_vars

\* C4: a getOrGenerateAudio whose key is resident when it looks returns the
\* cached payload and a nil error, runs neither gtts-cli nor ffmpeg and
\* never calls set.
C4_HitPath ==
  /\ [](\A p \in Procs :
          (gor[p].fn = "fetch" /\ gor[p].pc = "done" /\ gor[p].exists)
          => (gor[p].err = "nil" /\ gor[p].data # Nil
              /\ gor[p].synthCalls = 0 /\ gor[p].setCalls = 0))
  /\ [][\A p \in Procs :
          ( /\ gor[p].fn = "fetch" /\ gor[p].pc = "get_cs" /\ gor'[p] # gor[p]
            /\ gor[p].cacheKey \in DOMAIN cache )
          => /\ gor'[p].pc = "done"
             /\ gor'[p].exists
             /\ gor'[p].data = EntryOf(cache, lruList, gor[p].cacheKey).data
       ]_vars

\* a request has been served from the cache
C4_Witness ==
  \E p \in Procs : gor[p].fn = "fetch" /\ gor[p].pc = "done" /\ gor[p].exists

\* C5: a getOrGenerateAudio that missed and whose gtts-cli or ffmpeg run
\* failed returns that error and no payload, never calls set, and no step it
\* takes from the miss to its return changes the map or the list.
C5_FailedGeneration ==
  /\ [](\A p \in Procs :
          (gor[p].fn = "fetch" /\ gor[p].pc = "done" /\ gor[p].err # "nil")
          => (gor[p].data = Nil /\ ~gor[p].exists /\ gor[p].setCalls = 0))
  /\ [](\A p \in Procs :
          (gor[p].fn = "fetch" /\ gor[p].err # "nil") => gor[p].pc = "done")
  /\ [][\A p \in Procs :
          (gor[p].pc \in {"gtts", "ffmpeg"} /\ gor'[p] # gor[p])
          => /\ UNCHANGED << cache, lruList >>
             /\ gor'[p].pc \in {"ffmpeg", "set", "done"}
             /\ (gor'[p].pc = "done" <=> gor'[p].err # "nil")
       ]_vars

\* one request failed in ffmpeg after gtts-cli ran, another one succeeded and was cached
C5_Witness ==
  /\ \E p \in Procs : gor[p].pc = "done" /\ gor[p].err = "ffmpeg" /\ gor[p].synthCalls = 1
  /\ \E p \in Procs : gor[p].pc = "done" /\ gor[p].err = "nil" /\ gor[p].setCalls = 1
  /\ DOMAIN cache # {}

\* C6: for every key, payload and prior store, a get of the key run on the
\* store that set(key, payload) has just left returns (payload, true).
C6_RoundTrip ==
  [][\A p \in Procs :
       Steps(p, "set_cs", "done")
       => LET r == get([cache |-> cache', lruList |-> lruList'], gor[p].cacheKey)
          IN  r.exists /\ r.data = gor[p].audioData
    ]_vars

\* a zero-length payload has overwritten a resident non-empty one
C6_Witness ==
  /\ gor[Driver].pc = "done" /\ gor[Driver].fn = "set"
  /\ gor[Driver].audioData = << >>
  /\ gor[Driver].evicted = {}
  /\ Len(lruList) = 2
  /\ now > lruList[1].Value.entry.timestamp

\* C7: two getOrGenerateAudio calls for the same (text, lang) that both
\* missed while running concurrently return the same payload bytes, and the
\* store then holds an entry for their key.
C7_DuplicateFetch ==
  \A p \in Procs : \A q \in Procs \ {p} :
    ( /\ gor[p].fn = "fetch" /\ gor[q].fn = "fetch"
      /\ gor[p].text = gor[q].text /\ gor[p].lang = gor[q].lang
      /\ q \in gor[p].peers
      /\ gor[p].pc = "done" /\ gor[q].pc = "done" )
    => /\ gor[p].err = "nil" /\ gor[q].err = "nil"
       /\ gor[p].data = gor[q].data

\* C8: whenever the mutex is free, the keys carried by the elements of
\* lruList are exactly the keys of the map, no key is carried by two
\* elements, and cache[k] is the address of the element carrying k.
C8_MapListConsistent ==
  mu = Unlocked =>
    /\ ListKeys(lruList) = DOMAIN cache
    /\ Cardinality(ListKeys(lruList)) = Len(lruList)
    /\ Cardinality(Ids(lruList)) = Len(lruList)
    /\ \A k \in DOMAIN cache :
          InList(lruList, cache[k]) /\ ItemOf(cache, lruList, k).key = k

\* a capacity eviction has happened and a sweeper pass has run
C8_Witness ==
  /\ mu = Unlocked
  /\ gor[Driver].pc = "done" /\ gor[Driver].fn = "set" /\ gor[Driver].evicted # {}
  /\ sweeper.wakeAt > TTL
  /\ Len(lruList) = 1
  /\ maxSize = 2

\* C9: two requests with different (text, lang) never get the same key.
C9_KeysSeparate ==
  \A p \in Procs : \A q \in Procs :
    ( /\ gor[p].fn = "fetch" /\ gor[q].fn = "fetch"
      /\ << gor[p].text, gor[p].lang >> # << gor[q].text, gor[q].lang >> )
    => gor[p].cacheKey # gor[q].cacheKey

\* C10: a goroutine running gtts-cli or ffmpeg does not hold the mutex; the
\* mutex is held only inside the bodies of get, set and a sweeper pass.
C10_NoSynthesisUnderLock ==
  /\ \A p \in Procs : gor[p].pc \in {"gtts", "ffmpeg"} => mu # p
  /\ \A p \in Procs : mu = p <=> gor[p].pc \in {"get_cs", "set_cs"}
  /\ mu = Sweeper <=> sweeper.pc = "sweep"

\* one goroutine is inside get, the sweeper waits for it, while the other
\* goroutine runs ffmpeg
C10_Witness ==
  \E p \in Procs : \E q \in Procs \ {p} :
    /\ gor[p].pc = "ffmpeg"
    /\ gor[q].pc = "get_cs" /\ mu = q

\* C11: a getOrGenerateAudio whose gtts-cli or ffmpeg run does not complete
\* eventually returns (with a timeout failure) to its caller.
C11_TimeoutReturns ==
  \A p \in Procs : (gor[p].pc \in {"gtts", "ffmpeg"}) ~> (gor[p].pc = "done")

\* C12: in every store the program reaches and for every key, a get run on
\* the store that remove(key) leaves misses, no list element carries the key
\* any more, and remove of a key that is not resident changes nothing.
C12_RemoveThenGet ==
  \A k \in Keys :
    LET st == remove(store, k)
    IN  /\ k \notin DOMAIN st.cache
        /\ k \notin ListKeys(st.lruList)
        /\ ~get(st, k).exists
        /\ get(st, k).data = Nil
        /\ (k \notin DOMAIN cache => st = store)
        /\ \A j \in DOMAIN cache \ {k} : get(st, j).exists

\* set has just removed a key through remove, and a get of that key misses
C12_Witness ==
  /\ gor[Driver].pc = "done" /\ gor[Driver].fn = "set"
  /\ \E k \in gor[Driver].evicted :
        /\ k \notin DOMAIN cache
        /\ ~get(store, k).exists
  /\ DOMAIN cache # {}
  /\ mu = Unlocked

\* C13: with the sweeper scheduled at each of its wake-ups, get never
\* reports a hit for an entry whose age exceeds twice the expiration.
C13_StalenessWindow ==
  [][\A p \in Procs :
       ( /\ Steps(p, "get_cs", "done")
         /\ gor'[p].exists )
       => now - EntryOf(cache, lruList, gor[p].cacheKey).timestamp <= 2 * expiration
    ]_vars

\* a get is about to hit an entry that is exactly two expirations old
C13_Witness ==
  /\ gor[Driver].pc = "get_cs" /\ mu = Driver
  /\ gor[Driver].cacheKey \in DOMAIN cache
  /\ now - EntryOf(cache, lruList, gor[Driver].cacheKey).timestamp = 2 * expiration

Fresh(item) == now - item.entry.timestamp <= expiration

C15_SweepEffect ==
  /\ [](sweeper.pc = "sweep" <=> mu = Sweeper)
  /\ [][ (sweeper.pc = "sweep" /\ sweeper'.pc = "sleep")
         => /\ mu = Sweeper /\ mu' = Unlocked
            /\ DOMAIN cache' = { k \in DOMAIN cache : Fresh(ItemOf(cache, lruList, k)) }
            /\ \A k \in DOMAIN cache' : cache'[k] = cache[k]
            /\ lruList' = SelectSeq(lruList, LAMBDA e : Fresh(e.Value))
            /\ now' = now
       ]_vars

\* the pass that has just ended removed the key of the last get, which had
\* hit, and kept a younger entry
C15_Witness ==
  /\ sweeper.pc = "sleep" /\ sweeper.wakeAt = now + expiration
  /\ gor[Driver].pc = "done" /\ gor[Driver].fn = "get" /\ gor[Driver].exists
  /\ gor[Driver].cacheKey \notin DOMAIN cache
  /\ Len(lruList) = 1
  /\ now - lruList[1].Value.entry.timestamp <= expiration

\* C16: the sweeper never leaves its loop: every pass, whatever the store
\* holds, ends asleep with the next wake-up set; under fair scheduling every
\* wake-up that is due leads to a pass, and every entry that is old enough
\* before the clock of the model stops is eventually removed or overwritten.
Horizon == MaxTime - 2 * TTL

C17_DeadlockFree ==
  /\ [](\A p \in Procs : gor[p].pc \in {"get", "set"} => mu # p)
  /\ [](sweeper.pc = "sleep" => mu # Sweeper)
  /\ [][\A p \in Procs :
          (gor[p].pc \in {"get_cs", "set_cs"} /\ gor'[p].pc # gor[p].pc)
          => (mu = p /\ mu' = Unlocked)
       ]_vars
  /\ [][ (sweeper.pc = "sweep" /\ sweeper'.pc # "sweep") => (mu = Sweeper /\ mu' = Unlocked) ]_vars
  /\ \A p \in Procs : (gor[p].pc = "get") ~> (gor[p].pc \in {"gtts", "done"})
  /\ \A p \in Procs : (gor[p].pc = "set") ~> (gor[p].pc = "done")

\* one goroutine holds the mutex in set while the other goroutine and the
\* sweeper, whose wake-up is due, wait for it
C17_Witness ==
  \E p \in Procs : \E q \in Procs \ {p} :
    /\ gor[p].pc = "set_cs" /\ mu = p
    /\ gor[q].pc \in {"get", "set"}
    /\ sweeper.pc = "sleep" /\ now >= sweeper.wakeAt

\* C18: a get that hits moves the element of its key to the front of the
\* list and changes nothing else: the map, every element's payload and
\* timestamp (the one of the key included) and the order of the other
\* elements stay; a get that misses changes neither map nor list.
C18_GetFrame ==
  [][\A p \in Procs :
       (gor[p].pc = "get_cs" /\ gor'[p] # gor[p])
       => LET k == gor[p].cacheKey
          IN  /\ cache' = cache
              /\ IF k \in DOMAIN cache
                 THEN /\ lruList'[1] = ElemAt(lruList, cache[k])
                      /\ Tail(lruList') = ListRemove(lruList, cache[k])
                      /\ useOrder'[1] = k
                      /\ gor'[p].exists
                 ELSE /\ lruList' = lruList
                      /\ ~gor'[p].exists
    ]_vars

\* a get has moved the older of two entries in front of the younger one
C18_Witness ==
  /\ gor[Driver].pc = "done" /\ gor[Driver].fn = "get" /\ gor[Driver].exists
  /\ Len(lruList) = 2
  /\ lruList[1].Value.key = gor[Driver].cacheKey
  /\ lruList[1].Value.entry.timestamp < lruList[2].Value.entry.timestamp
  /\ now > lruList[2].Value.entry.timestamp

\* C19: a set of a key that is resident, the store full or not, evicts no
\* key and keeps the number of entries; the key's element moves to the front
\* with the new payload and the current time, and every other element keeps
\* its payload, its timestamp and its place among the others.
C19_OverwriteFrame ==
  [][\A p \in Procs :
       (Steps(p, "set_cs", "done") /\ gor[p].cacheKey \in DOMAIN cache)
       => LET k == gor[p].cacheKey
          IN  /\ cache' = cache
              /\ Len(lruList') = Len(lruList)
              /\ gor'[p].evicted = {}
              /\ lruList'[1] = [id |-> cache[k], Value |-> cacheItem(k, gor[p].audioData, now)]
              /\ Tail(lruList') = ListRemove(lruList, cache[k])
    ]_vars

\* a set has overwritten a resident entry of a full store of capacity 2
C19_Witness ==
  /\ maxSize = 2 /\ Len(lruList) = 2
  /\ gor[Driver].pc = "done" /\ gor[Driver].fn = "set" /\ gor[Driver].exists
  /\ gor[Driver].evicted = {}
  /\ lruList[1].Value.key = gor[Driver].cacheKey
  /\ lruList[1].Value.entry.data = gor[Driver].audioData
  /\ lruList[1].id < lruList[2].id

\* C20: in the file-backed variant a key is in audioCache only after a
\* gtts-cli run has written output_<key>.mp3 completely, and while
\* handleSpeak serves output_<key>.mp3 no gtts-cli is writing that file.
C20_FileServedComplete ==
  /\ \A k \in DOMAIN audioCache :
        audioCache[k] = SprintfFilename(k) /\ audioCache[k] \in written
  /\ \A p \in Procs :
        gor[p].pc = "serving"
        => \A q \in Procs : << SprintfFilename(gor[p].cacheKey), q >> \notin gttsWriters
====
